---------------------------- MODULE Spec2Model ----------------------------
(***************************************************************************)
(* Incremental coverage dataset (detailed_coverage_data_utils.py), the     *)
(* cross-cycle state file and the corpus extraction (measure_worker.py).   *)
(*                                                                         *)
(* SpecData      : one trial's DetailedCoverageData fed by successive      *)
(*                 extract_segments_and_functions_from_summary_json calls  *)
(*                 on well-formed summaries.                               *)
(* SpecMalformed : the same dataset, where a call may receive a malformed  *)
(*                 summary.                                                *)
(* SpecState     : StateFile objects of successive cycles over one bucket. *)
(* SpecWrite     : the same, with set_current taken statement by statement *)
(*                 and allowed to fail before or in its copy.              *)
(* SpecDedup     : remove_redundant_entries applied to any small dataset.  *)
(* SpecAppend    : the four operations on a dataset, in any order.         *)
(* SpecCorpus    : extract_corpus applied to any small archive, blacklist  *)
(*                 and output directory.                                   *)
(***************************************************************************)
EXTENDS Integers, Sequences, FiniteSets, TLC

\* ------------------------------------------------------------------ bounds
MaxTime == 2
MaxFunctions == 1
MaxFiles == 2
MaxSegments == 1
MaxLine == 2
MaxColumn == 1
MaxHits == 1
MaxCycle == 3
MaxObjects == 2
MaxGets == 2
MaxStateLen == 1
MaxRows == 3
MaxCalls == 2
MaxMembers == 3
MaxByte == 1
MaxContentLen == 2

\* --------------------------------------------------- inputs of one dataset
Benchmark == "benchmark_1"
Fuzzer == "fuzzer_1"
Fuzzers == {Fuzzer, "fuzzer_2"}
TrialId == 2

FunctionNames == {"main", "foo"}
FileNames == {"a.cc", "b.cc"}
Lines == 1..MaxLine
Columns == 1..MaxColumn
Hits == 0..MaxHits

SeqUpTo(S, n) == UNION {[1..k -> S] : k \in 0..n}

\* JSON null where the traversal expects an object.
Null == [null |-> TRUE]
IsNull(v) == "null" \in DOMAIN v

\* Well-formed pieces of a coverage summary:
\* {data: [{functions: [{name, count}], files: [{filename, segments}]}]}
ValidFunctionData == [name : FunctionNames, count : Hits]
ValidSegment == {<<l, c, h>> : l \in Lines, c \in Columns, h \in Hits}
ValidFile == [filename : FileNames, segments : SeqUpTo(ValidSegment, MaxSegments)]
ValidSummary ==
    {[data |-> <<[functions |-> fs, files |-> fl]>>] :
        fs \in SeqUpTo(ValidFunctionData, MaxFunctions),
        fl \in SeqUpTo(ValidFile, MaxFiles)}

\* Malformed pieces: a missing key, a list that is too short, a null.
MalformedFunctionData == {[count |-> h] : h \in Hits} \cup {Null}
ShortSegment == {<<l, c>> : l \in Lines, c \in Columns}
MalformedFile ==
    {[filename |-> f] : f \in FileNames} \cup {Null}
    \cup {[filename |-> f, segments |-> <<s>>] : f \in FileNames, s \in ShortSegment}
\* A summary with exactly one malformed piece, reached after `pre` good ones.
MalformedSummary ==
    {[data |-> <<>>]}
    \cup {[data |-> <<[functions |-> Append(fs, bad), files |-> <<>>]>>] :
            fs \in SeqUpTo(ValidFunctionData, MaxFunctions),
            bad \in MalformedFunctionData}
    \cup {[data |-> <<[functions |-> fs, files |-> Append(fl, bad)]>>] :
            fs \in SeqUpTo(ValidFunctionData, MaxFunctions),
            fl \in SeqUpTo(ValidFile, MaxFiles - 1),
            bad \in MalformedFile}

VARIABLES
    segment_df,    \* DetailedCoverageData.segment_df, rows in index order
    function_df,   \* DetailedCoverageData.function_df, rows in index order
    calls,         \* the extract calls made so far: inputs, tables before, outcome
    bucket,        \* the filestore: per state file path, whether it exists and its text
    objects,       \* the StateFile objects constructed so far
    gets,          \* per StateFile object, its get_previous calls so far
    temp_file,     \* the set_current in progress: its step and its temporary file
    written,       \* per state file path, the state of the last completed set_current
    corpus         \* one extract_corpus call: archive, blacklist, output directory

dataVars == <<segment_df, function_df, calls>>
stateVars == <<bucket, objects, gets, temp_file, written>>
vars == <<segment_df, function_df, calls, bucket, objects, gets, temp_file, written, corpus>>

\* ------------------------------------------------- DetailedCoverageData
\* Mutant: a function that was never hit gets no row.
add_function_entry_skipping_unhit(self, benchmark, fuzzer, trial_id, function, function_hits, time) ==
    IF function_hits = 0 THEN self
    ELSE [self EXCEPT !.function_df =
            Append(@, [benchmark |-> benchmark, fuzzer |-> fuzzer, trial |-> trial_id,
                       time |-> time, function |-> function, hits |-> function_hits])]

\* Mutant: the new row takes the place of the function's earlier rows.
add_function_entry_replacing(self, benchmark, fuzzer, trial_id, function, function_hits, time) ==
    [self EXCEPT !.function_df =
        Append(SelectSeq(@, LAMBDA row : row.function # function),
               [benchmark |-> benchmark, fuzzer |-> fuzzer, trial |-> trial_id,
                time |-> time, function |-> function, hits |-> function_hits])]

\* add_function_entry: unconditional append to function_df.
add_function_entry(self, benchmark, fuzzer, trial_id, function, function_hits, time) ==
    [self EXCEPT !.function_df =
        Append(@, [benchmark |-> benchmark, fuzzer |-> fuzzer, trial |-> trial_id,
                   time |-> time, function |-> function, hits |-> function_hits])]

\* `[line, column] not in recoreded_segments` on a Python list.
InList(x, list) == \E i \in DOMAIN list : list[i] = x

\* Mutant: the rows of the table are consulted, not the list handed in.
add_segment_entry_consulting_table(self, benchmark, fuzzer, trial_id, file_name, line, column, time, recoreded_segments) ==
    IF ~\E i \in DOMAIN self.segment_df :
            self.segment_df[i].line = line /\ self.segment_df[i].column = column
    THEN [self EXCEPT !.segment_df =
            Append(@, [benchmark |-> benchmark, fuzzer |-> fuzzer, trial |-> trial_id,
                       time |-> time, file |-> file_name, line |-> line,
                       column |-> column])]
    ELSE self

\* add_segment_entry: append unless [line, column] is in recoreded_segments.
add_segment_entry(self, benchmark, fuzzer, trial_id, file_name, line, column, time, recoreded_segments) ==
    IF ~InList(<<line, column>>, recoreded_segments)
    THEN [self EXCEPT !.segment_df =
            Append(@, [benchmark |-> benchmark, fuzzer |-> fuzzer, trial |-> trial_id,
                       time |-> time, file |-> file_name, line |-> line,
                       column |-> column])]
    ELSE self

\* ------------------------------------------------ remove_redundant_entries
\* The orders in which n rows can be arranged.
Orderings(n) == {f \in [1..n -> 1..n] : \A i, j \in 1..n : f[i] = f[j] => i = j}

\* segment_df.sort_values(by=['time']): the rows in nondecreasing time. The
\* default kind, 'quicksort', is not stable: rows of equal time come out in
\* whatever order the sort leaves them in.
sort_values_by_time(df) ==
    {[i \in DOMAIN df |-> df[f[i]]] :
        f \in {g \in Orderings(Len(df)) :
                 \A i, j \in DOMAIN df : i < j => df[g[i]].time <= df[g[j]].time}}

\* subset=self.segment_df.columns.difference(['time'])
DuplicateSubset(row) ==
    <<row.benchmark, row.column, row.file, row.fuzzer, row.line, row.trial>>

\* Mutant: keep='last'.
RECURSIVE drop_duplicates_keep_last(_)
drop_duplicates_keep_last(df) ==
    IF df = <<>> THEN <<>>
    ELSE (IF \E j \in 2..Len(df) : DuplicateSubset(df[j]) = DuplicateSubset(df[1])
          THEN <<>> ELSE <<df[1]>>) \o drop_duplicates_keep_last(Tail(df))

\* drop_duplicates(subset=..., keep='first'): a row stays unless an earlier row
\* agrees with it on the subset.
drop_duplicates(df) ==
    LET kept == {i \in DOMAIN df :
                    ~\E j \in 1..(i - 1) : DuplicateSubset(df[j]) = DuplicateSubset(df[i])}
        RECURSIVE Keep(_)
        Keep(i) == IF i > Len(df) THEN <<>>
                   ELSE (IF i \in kept THEN <<df[i]>> ELSE <<>>) \o Keep(i + 1)
    IN  Keep(1)

\* remove_redundant_entries: the datasets the call can leave. The statements of
\* the try block raise none of the caught exceptions on a table of such rows.
remove_redundant_entries(self) ==
    {[self EXCEPT !.segment_df = drop_duplicates(sorted)] :
        sorted \in sort_values_by_time(self.segment_df)}

\* ------------------------- extract_segments_and_functions_from_summary_json
\* Mutant: the pair is built as [column, line].
RecordedSegmentsSwapped(df) == [i \in DOMAIN df |-> <<df[i].column, df[i].line>>]

\* recorded_segments: the [line, column] of every row of segment_df, computed
\* once, before the traversal.
RecordedSegments(df) == [i \in DOMAIN df |-> <<df[i].line, df[i].column>>]

\* Mutant: the list is rebuilt from the table before every segment.
SeenForSegmentRebuilt(recorded_segments, self) == RecordedSegments(self.segment_df)

\* The list handed to add_segment_entry for each segment of the call.
SeenForSegment(recorded_segments, self) == recorded_segments

\* Exceptions the except clause of extract swallows.
CaughtExceptions == {"ValueError", "KeyError", "IndexError"}

\* for function_data in coverage_info['data'][0]['functions']
RECURSIVE FunctionLoop(_, _, _, _)
FunctionLoop(functions, i, time, self) ==
    IF i > Len(functions) THEN [self |-> self, exc |-> "none"]
    ELSE LET function_data == functions[i] IN
         IF IsNull(function_data) THEN [self |-> self, exc |-> "TypeError"]
         ELSE IF "name" \notin DOMAIN function_data \/ "count" \notin DOMAIN function_data
         THEN [self |-> self, exc |-> "KeyError"]
         ELSE FunctionLoop(functions, i + 1, time,
                add_function_entry(self, Benchmark, Fuzzer, TrialId,
                                   function_data.name, function_data.count, time))

\* Mutant: the hit count is not looked at.
SegmentHitIgnored(segment) == TRUE

\* `if segment[2] != 0` (Python indexes from 0, TLA+ from 1).
SegmentHit(segment) == segment[3] # 0

\* for segment in file['segments']
RECURSIVE SegmentLoop(_, _, _, _, _, _)
SegmentLoop(file, segments, j, time, recorded_segments, self) ==
    IF j > Len(segments) THEN [self |-> self, exc |-> "none"]
    ELSE LET segment == segments[j] IN
         IF Len(segment) < 3 THEN [self |-> self, exc |-> "IndexError"]
         ELSE IF SegmentHit(segment)
         THEN IF "filename" \notin DOMAIN file THEN [self |-> self, exc |-> "KeyError"]
              ELSE SegmentLoop(file, segments, j + 1, time, recorded_segments,
                     add_segment_entry(self, Benchmark, Fuzzer, TrialId, file.filename,
                                       segment[1], segment[2], time,
                                       SeenForSegment(recorded_segments, self)))
         ELSE SegmentLoop(file, segments, j + 1, time, recorded_segments, self)

\* for file in coverage_info['data'][0]['files']
RECURSIVE FileLoop(_, _, _, _, _)
FileLoop(files, i, time, recorded_segments, self) ==
    IF i > Len(files) THEN [self |-> self, exc |-> "none"]
    ELSE LET file == files[i] IN
         IF IsNull(file) THEN [self |-> self, exc |-> "TypeError"]
         ELSE IF "segments" \notin DOMAIN file THEN [self |-> self, exc |-> "KeyError"]
         ELSE LET r == SegmentLoop(file, file.segments, 1, time, recorded_segments, self) IN
              IF r.exc # "none" THEN r
              ELSE FileLoop(files, i + 1, time, recorded_segments, r.self)

\* The body of the try block.
TryBody(coverage_info, time, recorded_segments, self) ==
    IF "data" \notin DOMAIN coverage_info THEN [self |-> self, exc |-> "KeyError"]
    ELSE IF Len(coverage_info.data) < 1 THEN [self |-> self, exc |-> "IndexError"]
    ELSE LET d == coverage_info.data[1] IN
         IF "functions" \notin DOMAIN d THEN [self |-> self, exc |-> "KeyError"]
         ELSE LET f == FunctionLoop(d.functions, 1, time, self) IN
              IF f.exc # "none" THEN f
              ELSE IF "files" \notin DOMAIN d THEN [self |-> f.self, exc |-> "KeyError"]
              ELSE FileLoop(d.files, 1, time, recorded_segments, f.self)

\* The whole function: the dataset as left by the call, and whether the call
\* returned it or an exception left the function.
extract_segments_and_functions_from_summary_json(summary, time, self) ==
    LET recorded_segments == RecordedSegments(self.segment_df)
        r == TryBody(summary, time, recorded_segments, self)
    IN  [self |-> r.self,
         outcome |-> IF r.exc = "none" \/ r.exc \in CaughtExceptions
                     THEN "returned" ELSE "raised",
         exc |-> r.exc]

\* ------------------------------------------------------------ StateFile
MEASURED_FILES_STATE_NAME == "measured-files"
DETAILED_COVERAGE_SEGMENTS_STATE_NAME == "measured-segment-coverage-data"
StateNames == {MEASURED_FILES_STATE_NAME, DETAILED_COVERAGE_SEGMENTS_STATE_NAME}
StateDir == "measurement-folders/state"
Cycles == 1..MaxCycle

\* Python values a state can be: None, or a list of [line, column] lists.
None == [type |-> "NoneType"]
PyList(items) == [type |-> "list", items |-> items]
IsNone(v) == v.type = "NoneType"
States == {PyList(items) : items \in SeqUpTo(Lines \X Columns, MaxStateLen)}

\* json.dumps of a list of lists of non-negative integers, as its characters.
DigitChar(d) ==
    CASE d = 0 -> "0" [] d = 1 -> "1" [] d = 2 -> "2" [] d = 3 -> "3" [] d = 4 -> "4"
      [] d = 5 -> "5" [] d = 6 -> "6" [] d = 7 -> "7" [] d = 8 -> "8" [] d = 9 -> "9"
RECURSIVE IntText(_)
IntText(n) == IF n < 10 THEN <<DigitChar(n)>> ELSE IntText(n \div 10) \o <<DigitChar(n % 10)>>
RECURSIVE JoinText(_, _)
JoinText(texts, i) ==
    IF i > Len(texts) THEN <<>>
    ELSE (IF i > 1 THEN <<",", " ">> ELSE <<>>) \o texts[i] \o JoinText(texts, i + 1)
IntListText(list) == <<"[">> \o JoinText([i \in DOMAIN list |-> IntText(list[i])], 1) \o <<"]">>
json_dumps(state) ==
    <<"[">> \o JoinText([i \in DOMAIN state.items |-> IntListText(state.items[i])], 1)
            \o <<"]">>

\* json.loads of such a text: [ok, value]; ok is FALSE where json.loads raises.
Digits == {"0", "1", "2", "3", "4", "5", "6", "7", "8", "9"}
DigitValue(c) ==
    CASE c = "0" -> 0 [] c = "1" -> 1 [] c = "2" -> 2 [] c = "3" -> 3 [] c = "4" -> 4
      [] c = "5" -> 5 [] c = "6" -> 6 [] c = "7" -> 7 [] c = "8" -> 8 [] c = "9" -> 9
RECURSIVE SkipSpaces(_, _)
SkipSpaces(text, pos) ==
    IF pos <= Len(text) /\ text[pos] = " " THEN SkipSpaces(text, pos + 1) ELSE pos
At(text, pos) == IF pos <= Len(text) THEN text[pos] ELSE "EOF"
RECURSIVE ParseDigits(_, _, _)
ParseDigits(text, pos, acc) ==
    IF At(text, pos) \in Digits
    THEN ParseDigits(text, pos + 1, 10 * acc + DigitValue(text[pos]))
    ELSE [value |-> acc, pos |-> pos]
ParseInt(text, pos) ==
    IF At(text, pos) \in Digits
    THEN LET r == ParseDigits(text, pos, 0) IN [ok |-> TRUE, value |-> r.value, pos |-> r.pos]
    ELSE [ok |-> FALSE, value |-> 0, pos |-> pos]
\* The elements after "[": element ("," element)* "]", or "]" at once.
RECURSIVE ParseIntElements(_, _, _)
ParseIntElements(text, pos, acc) ==
    LET e == ParseInt(text, SkipSpaces(text, pos))
        q == SkipSpaces(text, e.pos)
    IN  IF ~e.ok THEN [ok |-> FALSE, value |-> acc, pos |-> pos]
        ELSE IF At(text, q) = "," THEN ParseIntElements(text, q + 1, Append(acc, e.value))
        ELSE IF At(text, q) = "]" THEN [ok |-> TRUE, value |-> Append(acc, e.value), pos |-> q + 1]
        ELSE [ok |-> FALSE, value |-> acc, pos |-> q]
ParseIntList(text, pos) ==
    LET p == SkipSpaces(text, pos) IN
    IF At(text, p) # "[" THEN [ok |-> FALSE, value |-> <<>>, pos |-> p]
    ELSE IF At(text, SkipSpaces(text, p + 1)) = "]"
         THEN [ok |-> TRUE, value |-> <<>>, pos |-> SkipSpaces(text, p + 1) + 1]
         ELSE ParseIntElements(text, p + 1, <<>>)
RECURSIVE ParseListElements(_, _, _)
ParseListElements(text, pos, acc) ==
    LET e == ParseIntList(text, pos)
        q == SkipSpaces(text, e.pos)
    IN  IF ~e.ok THEN [ok |-> FALSE, value |-> acc, pos |-> pos]
        ELSE IF At(text, q) = "," THEN ParseListElements(text, q + 1, Append(acc, e.value))
        ELSE IF At(text, q) = "]" THEN [ok |-> TRUE, value |-> Append(acc, e.value), pos |-> q + 1]
        ELSE [ok |-> FALSE, value |-> acc, pos |-> q]
json_loads(text) ==
    LET p == SkipSpaces(text, 1)
        r == IF At(text, p) # "[" THEN [ok |-> FALSE, value |-> <<>>, pos |-> p]
             ELSE IF At(text, SkipSpaces(text, p + 1)) = "]"
                  THEN [ok |-> TRUE, value |-> <<>>, pos |-> SkipSpaces(text, p + 1) + 1]
                  ELSE ParseListElements(text, p + 1, <<>>)
    IN  [ok |-> r.ok /\ SkipSpaces(text, r.pos) > Len(text), value |-> PyList(r.value)]

\* Mutant: the file name is that of the object's own cycle, whatever cycle is
\* asked for.
get_bucket_cycle_state_file_path_of_own_cycle(self, cycle) ==
    <<self.state_dir, self.name, self.cycle>>

\* Mutant: the file name leaves out the state's name.
get_bucket_cycle_state_file_path_without_name(self, cycle) ==
    <<self.state_dir, MEASURED_FILES_STATE_NAME, cycle>>

\* StateFile._get_bucket_cycle_state_file_path: state_dir/<name>-<cycle>.json,
\* kept as its three parts.
get_bucket_cycle_state_file_path(self, cycle) == <<self.state_dir, self.name, cycle>>
Paths == {<<StateDir, n, c>> : n \in StateNames, c \in Cycles}

\* filestore_utils.cat(path, expect_zero=False): the text and a zero status, or
\* a nonzero status when the object is absent or the read fails.
ObjectExists(store, path) == path \in DOMAIN store /\ store[path].exists
filestore_cat(store, path, read_fails) ==
    IF ObjectExists(store, path) /\ ~read_fails
    THEN [retcode |-> 0, output |-> store[path].content]
    ELSE [retcode |-> 1, output |-> <<>>]

\* filestore_utils.cp(local, path): the object at path becomes the local file.
filestore_cp(store, content, path) ==
    [store EXCEPT ![path] = [exists |-> TRUE, content |-> content]]

\* Mutant: the status of the read is not looked at.
ReadFailedIgnored(result) == FALSE

\* `if result.retcode != 0`
ReadFailed(result) == result.retcode # 0

\* Mutant: the first cycle is taken to be cycle 0.
IsFirstCycleFromZero(cycle) == cycle = 0

\* `if self.cycle == 1`
IsFirstCycle(cycle) == cycle = 1

\* StateFile._get_previous_cycle_state: the value returned (or that json.loads
\* raised), and the read of the bucket it made, if any.
get_previous_cycle_state(self, store, read_fails) ==
    IF IsFirstCycle(self.cycle)
    THEN [outcome |-> "returned", value |-> PyList(<<>>), read |-> FALSE,
          path |-> <<>>, retcode |-> 0]
    ELSE LET previous_state_file_bucket_path ==
                 get_bucket_cycle_state_file_path(self, self.cycle - 1)
             result == filestore_cat(store, previous_state_file_bucket_path, read_fails)
         IN  IF ReadFailed(result)
             THEN [outcome |-> "returned", value |-> PyList(<<>>), read |-> TRUE,
                   path |-> previous_state_file_bucket_path, retcode |-> result.retcode]
             ELSE LET loaded == json_loads(result.output) IN
                  [outcome |-> IF loaded.ok THEN "returned" ELSE "raised",
                   value |-> loaded.value, read |-> TRUE,
                   path |-> previous_state_file_bucket_path, retcode |-> result.retcode]

\* Mutant: an empty cached state counts as not fetched (`if not self._prev_state`).
PrevStateMissingOrEmpty(prev_state) ==
    IsNone(prev_state) \/ prev_state.items = <<>>

\* `if self._prev_state is None`
PrevStateIsNone(prev_state) == IsNone(prev_state)

\* No set_current is in progress: no temporary file exists.
NoTempFile == [owner |-> 0, pc |-> "idle", state |-> None, text |-> <<>>, disk |-> <<>>]

InitState ==
    /\ bucket = [p \in Paths |-> [exists |-> FALSE, content |-> <<>>]]
    /\ objects = <<>>
    /\ gets = <<>>
    /\ temp_file = NoTempFile
    /\ written = [p \in Paths |-> None]

\* StateFile.__init__
StateFileInit(name, cycle) ==
    /\ Len(objects) < MaxObjects
    /\ objects' = Append(objects, [name |-> name, state_dir |-> StateDir, cycle |-> cycle,
                                   prev_state |-> None])
    /\ gets' = Append(gets, <<>>)
    /\ UNCHANGED <<bucket, temp_file, written, dataVars, corpus>>

\* StateFile.get_previous on object o; read_fails: the filestore read, if one
\* is made, ends with a nonzero status.
GetPrevious(o, read_fails) ==
    /\ Len(gets[o]) < MaxGets
    /\ LET self == objects[o] IN
       IF PrevStateIsNone(self.prev_state)
       THEN LET r == get_previous_cycle_state(self, bucket, read_fails) IN
            /\ objects' = [objects EXCEPT ![o].prev_state =
                              IF r.outcome = "returned" THEN r.value ELSE @]
            /\ gets' = [gets EXCEPT ![o] = Append(@,
                           [outcome |-> r.outcome, value |-> r.value, read |-> r.read,
                            path |-> r.path, retcode |-> r.retcode,
                            present |-> r.read /\ ObjectExists(bucket, r.path)])]
       ELSE /\ objects' = objects
            /\ gets' = [gets EXCEPT ![o] = Append(@,
                           [outcome |-> "returned", value |-> self.prev_state,
                            read |-> FALSE, path |-> <<>>, retcode |-> 0,
                            present |-> FALSE])]
    /\ UNCHANGED <<bucket, temp_file, written, dataVars, corpus>>

\* StateFile.set_current on object o: the text is written to the temporary
\* file and flushed, then copied to the bucket.
SetCurrent(o, state) ==
    /\ temp_file.pc = "idle"
    /\ LET self == objects[o]
           state_file_bucket_path == get_bucket_cycle_state_file_path(self, self.cycle)
       IN  /\ bucket' = filestore_cp(bucket, json_dumps(state), state_file_bucket_path)
           /\ written' = [written EXCEPT ![state_file_bucket_path] = state]
    /\ UNCHANGED <<objects, gets, temp_file, dataVars, corpus>>

\* What `temp_file.write(text)` has put in the file itself before any flush:
\* the buffered writer hands on whole buffers only, so some prefix of the text.
WrittenThrough(text) == {SubSeq(text, 1, n) : n \in 0..Len(text)}

\* Mutant: the copy may start before the flush.
CopyReadyUnflushed(pc) == pc \in {"written", "flushed"}

\* `filestore_utils.cp(...)` is the statement after `temp_file.flush()`.
CopyReady(pc) == pc = "flushed"

\* set_current, first statements: the path, the temporary file, json.dumps and
\* temp_file.write.
SetCurrentWrite(o, state) ==
    /\ temp_file.pc = "idle"
    /\ \E disk \in WrittenThrough(json_dumps(state)) :
           temp_file' = [owner |-> o, pc |-> "written", state |-> state,
                         text |-> json_dumps(state), disk |-> disk]
    /\ UNCHANGED <<bucket, objects, gets, written, dataVars, corpus>>

\* set_current: temp_file.flush()
SetCurrentFlush ==
    /\ temp_file.pc = "written"
    /\ temp_file' = [temp_file EXCEPT !.pc = "flushed", !.disk = temp_file.text]
    /\ UNCHANGED <<bucket, objects, gets, written, dataVars, corpus>>

\* set_current: the write or the flush raises; leaving the `with` block deletes
\* the temporary file.
SetCurrentFails ==
    /\ temp_file.pc = "written"
    /\ temp_file' = NoTempFile
    /\ UNCHANGED <<bucket, objects, gets, written, dataVars, corpus>>

\* set_current: filestore_utils.cp of the temporary file as it is on disk, then
\* the end of the `with` block. cp_fails: the copy raises and stores nothing.
SetCurrentCopy(cp_fails) ==
    /\ temp_file.pc # "idle"
    /\ CopyReady(temp_file.pc)
    /\ LET self == objects[temp_file.owner]
           state_file_bucket_path == get_bucket_cycle_state_file_path(self, self.cycle)
       IN  IF cp_fails
           THEN UNCHANGED <<bucket, written>>
           ELSE /\ bucket' = filestore_cp(bucket, temp_file.disk, state_file_bucket_path)
                /\ written' = [written EXCEPT ![state_file_bucket_path] = temp_file.state]
    /\ temp_file' = NoTempFile
    /\ UNCHANGED <<objects, gets, dataVars, corpus>>

NextWrite ==
    \/ \E name \in StateNames, cycle \in Cycles : StateFileInit(name, cycle)
    \/ \E o \in DOMAIN objects, read_fails \in BOOLEAN : GetPrevious(o, read_fails)
    \/ \E o \in DOMAIN objects, state \in States : SetCurrentWrite(o, state)
    \/ SetCurrentFlush
    \/ SetCurrentFails
    \/ \E cp_fails \in BOOLEAN : SetCurrentCopy(cp_fails)

NextState ==
    \/ \E name \in StateNames, cycle \in Cycles : StateFileInit(name, cycle)
    \/ \E o \in DOMAIN objects, read_fails \in BOOLEAN : GetPrevious(o, read_fails)
    \/ \E o \in DOMAIN objects, state \in States : SetCurrent(o, state)


\* ------------------------------------------------------------- behaviour
LastTime == IF calls = <<>> THEN 0 ELSE calls[Len(calls)].time

\* No extract_corpus call is being looked at.
NoCorpus == [archive |-> <<>>, sha_blacklist |-> {}, before |-> {}, output_directory |-> {},
             extracted |-> FALSE]

\* ---------------------------------------------------------- extract_corpus
\* File contents, as their bytes.
Contents == SeqUpTo(0..MaxByte, MaxContentLen)

\* utils.string_hash(contents): a digest, a function of the bytes alone under
\* which different contents can meet.
RECURSIVE string_hash(_)
string_hash(contents) ==
    IF contents = <<>> THEN 0 ELSE Head(contents) + string_hash(Tail(contents))
Hashes == {string_hash(c) : c \in Contents}

\* The members of a tar archive: regular files the archive gives a handle to,
\* regular files it gives none to, and members that are no files.
Members ==
    [isfile : {TRUE}, has_handle : BOOLEAN, contents : Contents]
    \cup {[isfile |-> FALSE, has_handle |-> FALSE, contents |-> <<>>]}

\* The output directory as the set of its files, one per name.
Directories ==
    {{}} \cup {{[name |-> string_hash(c), contents |-> c]} : c \in Contents}

\* Mutant: no path is taken to exist.
os_path_exists_never(directory, filename) == FALSE

\* os.path.exists(file_path)
os_path_exists(directory, filename) == \E f \in directory : f.name = filename

\* filesystem.write(file_path, contents, 'wb'): the file at the path becomes
\* the contents.
filesystem_write(directory, filename, contents) ==
    {f \in directory : f.name # filename} \cup {[name |-> filename, contents |-> contents]}

\* One pass of `for member in tar.getmembers()`.
ExtractMember(directory, member, sha_blacklist) ==
    IF ~member.isfile THEN directory
    ELSE IF ~member.has_handle THEN directory
    ELSE LET filename == string_hash(member.contents) IN
         IF filename \in sha_blacklist THEN directory
         ELSE IF os_path_exists(directory, filename) THEN directory
         ELSE filesystem_write(directory, filename, member.contents)

\* extract_corpus: the output directory after the loop over the members.
RECURSIVE extract_corpus(_, _, _)
extract_corpus(corpus_archive, sha_blacklist, output_directory) ==
    IF corpus_archive = <<>> THEN output_directory
    ELSE extract_corpus(Tail(corpus_archive), sha_blacklist,
                        ExtractMember(output_directory, Head(corpus_archive), sha_blacklist))

InitCorpus ==
    /\ segment_df = <<>>
    /\ function_df = <<>>
    /\ calls = <<>>
    /\ InitState
    /\ \E archive \in SeqUpTo(Members, MaxMembers), blacklist \in SUBSET Hashes :
       \E directory \in Directories :
           corpus = [archive |-> archive, sha_blacklist |-> blacklist,
                     before |-> directory, output_directory |-> directory,
                     extracted |-> FALSE]

\* The call extract_corpus(archive, sha_blacklist, output_directory).
ExtractCorpus ==
    /\ ~corpus.extracted
    /\ corpus' = [corpus EXCEPT
                     !.output_directory =
                         extract_corpus(corpus.archive, corpus.sha_blacklist, @),
                     !.extracted = TRUE]
    /\ UNCHANGED <<dataVars, stateVars>>

NextCorpus == ExtractCorpus

SpecCorpus == InitCorpus /\ [][NextCorpus]_vars

Init ==
    /\ segment_df = <<>>
    /\ function_df = <<>>
    /\ calls = <<>>
    /\ InitState
    /\ corpus = NoCorpus

\* One measurement cycle's call of extract, at a later time than the last.
Extract(summary, time) ==
    /\ LET r == extract_segments_and_functions_from_summary_json(
                    summary, time,
                    [segment_df |-> segment_df, function_df |-> function_df])
       IN  /\ segment_df' = r.self.segment_df
           /\ function_df' = r.self.function_df
           /\ calls' = Append(calls, [op |-> "extract", summary |-> summary, time |-> time,
                                      segment_before |-> segment_df,
                                      function_before |-> function_df,
                                      outcome |-> r.outcome, exc |-> r.exc])
    /\ UNCHANGED <<stateVars, corpus>>

ExtractValid ==
    \E time \in (LastTime + 1)..MaxTime : \E summary \in ValidSummary :
        Extract(summary, time)

ExtractMalformed ==
    \E time \in (LastTime + 1)..MaxTime : \E summary \in MalformedSummary :
        Extract(summary, time)

\* A call of remove_redundant_entries.
RemoveRedundantEntries ==
    /\ Len(calls) < MaxCalls
    /\ \E r \in remove_redundant_entries([segment_df |-> segment_df,
                                          function_df |-> function_df]) :
           /\ segment_df' = r.segment_df
           /\ function_df' = r.function_df
    /\ calls' = Append(calls, [op |-> "remove_redundant_entries", time |-> LastTime,
                               segment_before |-> segment_df,
                               function_before |-> function_df])
    /\ UNCHANGED <<stateVars, corpus>>

\* Datasets as direct calls of add_segment_entry and add_function_entry, for
\* any fuzzer of the experiment, can have built them.
SegmentRows ==
    [benchmark : {Benchmark}, fuzzer : Fuzzers, trial : {TrialId}, time : 1..MaxTime,
     file : FileNames, line : Lines, column : Columns]
FunctionRows ==
    [benchmark : {Benchmark}, fuzzer : {Fuzzer}, trial : {TrialId}, time : 1..MaxTime,
     function : FunctionNames, hits : Hits]

InitDedup ==
    /\ segment_df \in SeqUpTo(SegmentRows, MaxRows)
    /\ function_df \in SeqUpTo(FunctionRows, MaxFunctions)
    /\ calls = <<>>
    /\ InitState
    /\ corpus = NoCorpus

NextDedup == RemoveRedundantEntries

SpecDedup == InitDedup /\ [][NextDedup]_vars

\* A direct call of add_function_entry.
AddFunctionEntry(fuzzer, function, function_hits, time) ==
    /\ Len(calls) < MaxCalls
    /\ LET r == add_function_entry([segment_df |-> segment_df, function_df |-> function_df],
                                   Benchmark, fuzzer, TrialId, function, function_hits, time)
       IN  /\ segment_df' = r.segment_df
           /\ function_df' = r.function_df
    /\ calls' = Append(calls, [op |-> "add_function_entry", time |-> time,
                               segment_before |-> segment_df,
                               function_before |-> function_df,
                               fuzzer |-> fuzzer, function |-> function,
                               function_hits |-> function_hits])
    /\ UNCHANGED <<stateVars, corpus>>

\* A direct call of add_segment_entry, with the list of [line, column] pairs
\* its caller hands in.
AddSegmentEntry(fuzzer, file_name, line, column, time, recoreded_segments) ==
    /\ Len(calls) < MaxCalls
    /\ LET r == add_segment_entry([segment_df |-> segment_df, function_df |-> function_df],
                                  Benchmark, fuzzer, TrialId, file_name, line, column, time,
                                  recoreded_segments)
       IN  /\ segment_df' = r.segment_df
           /\ function_df' = r.function_df
    /\ calls' = Append(calls, [op |-> "add_segment_entry", time |-> time,
                               segment_before |-> segment_df,
                               function_before |-> function_df,
                               fuzzer |-> fuzzer, file_name |-> file_name, line |-> line,
                               column |-> column,
                               recoreded_segments |-> recoreded_segments])
    /\ UNCHANGED <<stateVars, corpus>>

\* The lists of [line, column] pairs a caller can hand in.
RecordedLists == SeqUpTo(Lines \X Columns, MaxStateLen)

NextAppend ==
    \/ Len(calls) < MaxCalls /\ ExtractValid
    \/ \E time \in 1..MaxTime, fuzzer \in Fuzzers, function \in FunctionNames, hits \in Hits :
          AddFunctionEntry(fuzzer, function, hits, time)
    \/ \E time \in 1..MaxTime, fuzzer \in Fuzzers, file_name \in FileNames :
          \E line \in Lines, column \in Columns, recoreded_segments \in RecordedLists :
              AddSegmentEntry(fuzzer, file_name, line, column, time, recoreded_segments)
    \/ RemoveRedundantEntries

SpecAppend == Init /\ [][NextAppend]_vars

NextData == ExtractValid

SpecData == Init /\ [][NextData]_vars

NextMalformed == ExtractValid \/ ExtractMalformed

SpecMalformed == Init /\ [][NextMalformed]_vars

SpecState == Init /\ [][NextState]_vars

SpecWrite == Init /\ [][NextWrite]_vars

\* ------------------------------------------------- reading the call history
Triple(row) == <<row.file, row.line, row.column>>
Pair(row) == <<row.line, row.column>>

FunctionsOf(summary) == summary.data[1].functions
FilesOf(summary) == summary.data[1].files

\* Positions <<file index, segment index>> of a well-formed summary's segments.
SegmentPositions(summary) ==
    UNION {{<<i, j>> : j \in DOMAIN FilesOf(summary)[i].segments} :
              i \in DOMAIN FilesOf(summary)}
SegmentAt(summary, p) == FilesOf(summary)[p[1]].segments[p[2]]
NonzeroPositions(summary) ==
    {p \in SegmentPositions(summary) : SegmentAt(summary, p)[3] # 0}
TripleAt(summary, p) ==
    <<FilesOf(summary)[p[1]].filename, SegmentAt(summary, p)[1], SegmentAt(summary, p)[2]>>
PairAt(summary, p) == <<SegmentAt(summary, p)[1], SegmentAt(summary, p)[2]>>
NonzeroTriples(summary) == {TripleAt(summary, p) : p \in NonzeroPositions(summary)}
NonzeroPairs(summary) == {PairAt(summary, p) : p \in NonzeroPositions(summary)}

\* The tables as call k left them.
SegmentAfter(k) == IF k < Len(calls) THEN calls[k + 1].segment_before ELSE segment_df
FunctionAfter(k) == IF k < Len(calls) THEN calls[k + 1].function_before ELSE function_df
RowsAfter(before, after) == SubSeq(after, Len(before) + 1, Len(after))
SegmentsAdded(k) == RowsAfter(calls[k].segment_before, SegmentAfter(k))
FunctionsAdded(k) == RowsAfter(calls[k].function_before, FunctionAfter(k))
PairsOf(df) == {Pair(df[i]) : i \in DOMAIN df}

Min(S) == CHOOSE x \in S : \A y \in S : x <= y

\* ------------------------------------------------------------------ claims

\* C1 (as claimed): after any sequence of extract calls at strictly increasing
\* times, each (file, line, column) triple is in the segment table at most once,
\* and its row carries the time of the first call that observed the triple with
\* a nonzero hit count.
C1_TripleOnceAtFirstTime ==
    /\ \A i, j \in DOMAIN segment_df :
          Triple(segment_df[i]) = Triple(segment_df[j]) => i = j
    /\ \A i \in DOMAIN segment_df :
          LET seen == {calls[k].time : k \in
                         {k \in DOMAIN calls :
                            Triple(segment_df[i]) \in NonzeroTriples(calls[k].summary)}}
          IN  seen # {} /\ segment_df[i].time = Min(seen)

\* C2 (as claimed): one extract call appends a (line, column) pair at most once,
\* however often the pair occurs in the summary.
C2_PairAppendedAtMostOncePerCall ==
    \A k \in DOMAIN calls :
        \A i, j \in DOMAIN SegmentsAdded(k) :
            Pair(SegmentsAdded(k)[i]) = Pair(SegmentsAdded(k)[j]) => i = j

\* C3 (as claimed): after cycle 1 at t1 and cycle 2 at t2 > t1, where summary 2's
\* nonzero-hit segments include summary 1's, each common segment is in the table
\* exactly once, with time t1.
C3_CommonSegmentOnceAtFirstCycle ==
    (Len(calls) = 2
     /\ NonzeroTriples(calls[1].summary) \subseteq NonzeroTriples(calls[2].summary))
    => \A t \in NonzeroTriples(calls[1].summary) :
          /\ Cardinality({i \in DOMAIN segment_df : Triple(segment_df[i]) = t}) = 1
          /\ \A i \in DOMAIN segment_df :
                Triple(segment_df[i]) = t => segment_df[i].time = calls[1].time

\* C4 (as claimed): every call on a valid summary produces as many segment rows
\* as the summary has nonzero-hit segments.
C4_RowsEqualNonzeroSegments ==
    \A k \in DOMAIN calls :
        Len(SegmentsAdded(k)) = Cardinality(NonzeroPositions(calls[k].summary))

\* C4 (amended): a call on a valid summary produces one segment row per
\* nonzero-hit segment whose (line, column) is not in the segment table when the
\* call starts (so one per nonzero-hit segment on an empty table), and every row
\* it produces is a nonzero-hit segment of the summary.
C4_RowsEqualNewNonzeroSegments ==
    \A k \in DOMAIN calls :
        LET s == calls[k].summary
            old == PairsOf(calls[k].segment_before)
        IN  /\ Len(SegmentsAdded(k)) =
                 Cardinality({p \in NonzeroPositions(s) : PairAt(s, p) \notin old})
            /\ calls[k].segment_before = <<>> =>
                 Len(SegmentsAdded(k)) = Cardinality(NonzeroPositions(s))
            /\ \A i \in DOMAIN SegmentsAdded(k) :
                 Triple(SegmentsAdded(k)[i]) \in NonzeroTriples(s)

\* A second cycle whose summary holds a segment recorded before (dropped), a new
\* nonzero-hit segment (appended); and a first cycle with a zero-hit segment.
C4_Witness ==
    /\ Len(calls) = 2
    /\ \E p \in SegmentPositions(calls[1].summary) : SegmentAt(calls[1].summary, p)[3] = 0
    /\ Cardinality(NonzeroPositions(calls[2].summary)) = 2
    /\ Len(SegmentsAdded(2)) = 1

\* C5: a call on a valid summary appends exactly one function row per element
\* of the functions list, zero counts included; each added row's name is a name
\* of the list and carries the call's benchmark, fuzzer, trial id and time.
C5_OneFunctionRowPerFunction ==
    \A k \in DOMAIN calls :
        LET fs == FunctionsOf(calls[k].summary)
            added == FunctionsAdded(k)
        IN  /\ Len(added) = Len(fs)
            /\ \A i \in DOMAIN added :
                 /\ added[i].function \in {fs[n].name : n \in DOMAIN fs}
                 /\ added[i].benchmark = Benchmark
                 /\ added[i].fuzzer = Fuzzer
                 /\ added[i].trial = TrialId
                 /\ added[i].time = calls[k].time

\* A call whose functions list holds a function with count 0.
C5_Witness ==
    \E k \in DOMAIN calls :
        /\ \E n \in DOMAIN FunctionsOf(calls[k].summary) :
              FunctionsOf(calls[k].summary)[n].count = 0
        /\ Len(FunctionsAdded(k)) = Len(FunctionsOf(calls[k].summary))
        /\ Len(FunctionsAdded(k)) > 0

\* C6: a cycle whose summary is that of the cycle before adds no segment row and
\* adds every function row again; after k calls with one summary the function
\* table holds k times the summary's function count.
C6_RepeatAddsFunctionsOnly ==
    /\ \A k \in DOMAIN calls :
          (k > 1 /\ calls[k].summary = calls[k - 1].summary) =>
              /\ SegmentsAdded(k) = <<>>
              /\ Len(FunctionsAdded(k)) = Len(FunctionsOf(calls[k].summary))
    /\ (calls # <<>> /\ \A k \in DOMAIN calls : calls[k].summary = calls[1].summary) =>
          Len(function_df) = Len(calls) * Len(FunctionsOf(calls[1].summary))

\* Two cycles on one summary that has a nonzero-hit segment and a function.
C6_Witness ==
    /\ Len(calls) = 2
    /\ calls[2].summary = calls[1].summary
    /\ NonzeroPositions(calls[1].summary) # {}
    /\ FunctionsOf(calls[1].summary) # <<>>
    /\ Len(function_df) = 2 * Len(FunctionsOf(calls[1].summary))
    /\ Len(segment_df) = Len(SegmentsAdded(1))

\* ----------------------------------------------------- malformed summaries
IsMalformedFunctionData(fd) == IsNull(fd) \/ "name" \notin DOMAIN fd
IsMalformedFile(f) ==
    \/ IsNull(f)
    \/ "segments" \notin DOMAIN f
    \/ \E j \in DOMAIN f.segments : Len(f.segments[j]) < 3
WellFormedFunctionData(fd) == ~IsMalformedFunctionData(fd)
WellFormedFile(f) == ~IsMalformedFile(f)
\* The pieces of a malformed summary the traversal passes before the fault.
BeforeFault(summary) ==
    IF summary.data = <<>> THEN [data |-> <<[functions |-> <<>>, files |-> <<>>]>>]
    ELSE [data |-> <<[functions |-> SelectSeq(FunctionsOf(summary), WellFormedFunctionData),
                      files |-> SelectSeq(FilesOf(summary), WellFormedFile)]>>]

\* C7 (as claimed): on a malformed summary (a missing key, a value of the wrong
\* type, an out-of-range index) extract does not raise; it returns the dataset,
\* which holds the rows present before the call plus exactly the rows appended
\* before the fault.
C7_MalformedSummaryNeverRaises ==
    \A k \in DOMAIN calls :
        calls[k].summary \in MalformedSummary =>
            LET before == [segment_df |-> calls[k].segment_before,
                           function_df |-> calls[k].function_before]
                good == extract_segments_and_functions_from_summary_json(
                            BeforeFault(calls[k].summary), calls[k].time, before)
            IN  /\ calls[k].outcome = "returned"
                /\ SegmentAfter(k) = good.self.segment_df
                /\ FunctionAfter(k) = good.self.function_df

\* The part of C7 the code keeps: a missing key or an out-of-range index is
\* caught, and the partial dataset is returned.
C7_CaughtFaultsReturnPartialRows ==
    \A k \in DOMAIN calls :
        (calls[k].summary \in MalformedSummary /\ calls[k].exc \in {"KeyError", "IndexError"}) =>
            LET before == [segment_df |-> calls[k].segment_before,
                           function_df |-> calls[k].function_before]
                good == extract_segments_and_functions_from_summary_json(
                            BeforeFault(calls[k].summary), calls[k].time, before)
            IN  /\ calls[k].outcome = "returned"
                /\ SegmentAfter(k) = good.self.segment_df
                /\ FunctionAfter(k) = good.self.function_df

\* ------------------------------------------------------- StateFile claims
EmptyState == PyList(<<>>)

\* C8: get_previous never raises on a failed read of the previous cycle's blob:
\* for cycle > 1, when the blob of cycle - 1 is absent or the read ends with a
\* nonzero status, it returns the empty state, which is what a first-cycle
\* object returns, so the cycle is seeded as an unseeded first cycle is.
C8_FailedReadGivesEmptyState ==
    \A o \in DOMAIN objects : \A g \in DOMAIN gets[o] :
        LET get == gets[o][g] IN
        (objects[o].cycle > 1 /\ get.read /\ (~get.present \/ get.retcode # 0)) =>
            /\ get.outcome = "returned"
            /\ get.value = EmptyState
            /\ get.value = get_previous_cycle_state(
                               [objects[o] EXCEPT !.cycle = 1], bucket, FALSE).value

\* Both kinds of failed read happened: the blob was absent, and the blob was
\* there but the read ended with a nonzero status.
C8_Witness ==
    /\ \E o \in DOMAIN objects : \E g \in DOMAIN gets[o] :
          objects[o].cycle > 1 /\ gets[o][g].read /\ ~gets[o][g].present
          /\ gets[o][g].value = EmptyState
    /\ \E o \in DOMAIN objects : \E g \in DOMAIN gets[o] :
          objects[o].cycle > 1 /\ gets[o][g].read /\ gets[o][g].present
          /\ gets[o][g].retcode # 0 /\ gets[o][g].value = EmptyState

\* C9: a StateFile of cycle 1 returns the empty state from every get_previous
\* and never reads the bucket, whatever blobs the bucket holds.
C9_FirstCycleReadsNothing ==
    \A o \in DOMAIN objects :
        objects[o].cycle = 1 =>
            \A g \in DOMAIN gets[o] :
                /\ ~gets[o][g].read
                /\ gets[o][g].outcome = "returned"
                /\ gets[o][g].value = EmptyState

\* A cycle-1 object called twice while the bucket holds a nonempty blob under
\* its own name.
C9_Witness ==
    \E o \in DOMAIN objects :
        /\ objects[o].cycle = 1
        /\ Len(gets[o]) = 2
        /\ \E c \in Cycles :
              LET blob == bucket[<<StateDir, objects[o].name, c>>] IN
              blob.exists /\ blob.content # json_dumps(EmptyState)

\* C10: over the get_previous calls of one StateFile object the bucket is read
\* at most once, by the first call, and every call returns the first call's
\* value, also when that value is the empty state and when the blob has been
\* written since.
C10_FetchedOnceThenCached ==
    \A o \in DOMAIN objects : \A g \in DOMAIN gets[o] :
        /\ g > 1 => ~gets[o][g].read
        /\ gets[o][g].value = gets[o][1].value
        /\ gets[o][g].outcome = "returned"

\* The first call read a missing blob and cached the empty state; the blob was
\* written afterwards, with a nonempty state, and the second call still
\* returned the empty state.
C10_Witness ==
    \E o \in DOMAIN objects :
        /\ objects[o].cycle > 1
        /\ Len(gets[o]) = 2
        /\ gets[o][1].read /\ ~gets[o][1].present
        /\ gets[o][2].value = EmptyState
        /\ LET blob == bucket[gets[o][1].path] IN
           blob.exists /\ blob.content # json_dumps(EmptyState)

\* The state file path set_current of the temporary file's owner writes to.
TempFilePath ==
    get_bucket_cycle_state_file_path(objects[temp_file.owner], objects[temp_file.owner].cycle)

\* C11: the bucket never holds a partial payload. An object that exists holds
\* the complete json.dumps text of the state of the last set_current whose copy
\* completed; a set_current that failed before or in its copy, or that is still
\* writing its temporary file, has left the earlier content (or nothing).
C11_BlobIsCompleteSerialization ==
    \A p \in Paths :
        IF bucket[p].exists
        THEN /\ ~IsNone(written[p])
             /\ bucket[p].content = json_dumps(written[p])
             /\ json_loads(bucket[p].content).ok
        ELSE IsNone(written[p])

\* C11 witness: a second set_current for a path whose object exists has written
\* only part of its text to the temporary file; the object is the earlier text.
C11_Witness ==
    /\ temp_file.pc = "written"
    /\ temp_file.disk # temp_file.text
    /\ temp_file.disk # <<>>
    /\ bucket[TempFilePath].exists
    /\ ~IsNone(written[TempFilePath])
    /\ written[TempFilePath].items # temp_file.state.items
    /\ bucket[TempFilePath].content = json_dumps(written[TempFilePath])

\* The (name, cycle) key of StateFile object o, as a path of the bucket.
KeyOf(o) == <<objects[o].state_dir, objects[o].name, objects[o].cycle>>

\* C12 (as claimed): once an object exists in the bucket, no step changes it.
C12_BlobNeverChanges ==
    [][\A p \in Paths : bucket[p].exists => bucket'[p] = bucket[p]]_vars

\* C12 (amended): an object that exists is changed only by the copy of a
\* set_current of a StateFile with the object's own name and cycle, which
\* replaces it by the whole text of the new state; construction, get_previous
\* and the set_current of any other name or cycle leave it as it is.
C12_BlobChangedOnlyBySetCurrentOfItsKey ==
    [][\A p \in Paths :
          (bucket[p].exists /\ bucket'[p] # bucket[p]) =>
              /\ temp_file.pc = "flushed"
              /\ KeyOf(temp_file.owner) = p
              /\ bucket'[p] = [exists |-> TRUE, content |-> json_dumps(temp_file.state)]]_vars

\* C12 witness: the objects of cycles 1 and 2 of one name exist, a StateFile of
\* a later cycle has read its predecessor, and a repeated set_current for
\* cycle 1 with another state is about to copy.
C12_Witness ==
    /\ temp_file.pc = "flushed"
    /\ objects[temp_file.owner].cycle = 1
    /\ bucket[KeyOf(temp_file.owner)].exists
    /\ bucket[KeyOf(temp_file.owner)].content # temp_file.text
    /\ bucket[<<StateDir, objects[temp_file.owner].name, 2>>].exists
    /\ \E o \in DOMAIN objects :
           /\ objects[o].cycle > 1
           /\ \E g \in DOMAIN gets[o] : gets[o][g].read /\ gets[o][g].present

\* ------------------------------------------------ claims on the dedup pass
\* The identity of a segment row across times.
RowKey(row) == <<row.benchmark, row.fuzzer, row.trial, row.file, row.line, row.column>>
KeysOf(df) == {RowKey(df[i]) : i \in DOMAIN df}
IsDedup(k) == calls[k].op = "remove_redundant_entries"

\* C13: remove_redundant_entries leaves, for every key of the table before,
\* exactly one row, whose time is the lowest time of the rows with that key;
\* every row it leaves is a row of the table before.
C13_OneRowPerKeyAtLowestTime ==
    \A k \in DOMAIN calls :
        IsDedup(k) =>
            LET before == calls[k].segment_before
                after == SegmentAfter(k)
            IN  /\ \A key \in KeysOf(before) :
                       /\ Cardinality({i \in DOMAIN after : RowKey(after[i]) = key}) = 1
                       /\ \A i \in DOMAIN after :
                              RowKey(after[i]) = key =>
                                  after[i].time = Min({before[j].time : j \in
                                      {j \in DOMAIN before : RowKey(before[j]) = key}})
                /\ \A i \in DOMAIN after : \E j \in DOMAIN before : after[i] = before[j]

\* C13 witness: the pass ran on a table where a key has rows at two times, the
\* later one first, next to a row of another key.
C13_Witness ==
    \E k \in DOMAIN calls :
        /\ IsDedup(k)
        /\ LET before == calls[k].segment_before IN
           /\ \E i, j \in DOMAIN before :
                  /\ i < j
                  /\ RowKey(before[i]) = RowKey(before[j])
                  /\ before[i].time > before[j].time
           /\ Cardinality(KeysOf(before)) > 1
           /\ Len(SegmentAfter(k)) < Len(before)

\* C14 (as claimed): a second remove_redundant_entries right after a first
\* leaves the table the first one left.
C14_SecondPassChangesNothing ==
    \A k \in DOMAIN calls :
        (k > 1 /\ IsDedup(k) /\ IsDedup(k - 1)) => SegmentAfter(k) = calls[k].segment_before

\* ------------------------------------------------ claims on the row tables
IsPrefix(s, t) == Len(s) <= Len(t) /\ SubSeq(t, 1, Len(s)) = s

\* C15: add_segment_entry appends exactly the row (benchmark, fuzzer, trial,
\* time, file, line, column) when [line, column] is not in the list handed in,
\* and otherwise leaves the segment table as it was; the function table is
\* unchanged either way.
C15_AddSegmentEntryFrame ==
    \A k \in DOMAIN calls :
        calls[k].op = "add_segment_entry" =>
            LET c == calls[k]
                seen == {c.recoreded_segments[i] : i \in DOMAIN c.recoreded_segments}
            IN  /\ SegmentAfter(k) =
                       IF <<c.line, c.column>> \in seen
                       THEN c.segment_before
                       ELSE Append(c.segment_before,
                                   [benchmark |-> Benchmark, fuzzer |-> c.fuzzer,
                                    trial |-> TrialId, time |-> c.time,
                                    file |-> c.file_name, line |-> c.line,
                                    column |-> c.column])
                /\ FunctionAfter(k) = c.function_before

\* C15 witness: a call whose pair is not in the list it is handed appended a
\* row; the next call, on that table, is handed a list with its pair, which no
\* row of the table has, and appended nothing.
C15_Witness ==
    /\ \E k \in DOMAIN calls :
           /\ calls[k].op = "add_segment_entry"
           /\ ~InList(<<calls[k].line, calls[k].column>>, calls[k].recoreded_segments)
           /\ Len(SegmentAfter(k)) = Len(calls[k].segment_before) + 1
    /\ \E k \in DOMAIN calls :
           /\ calls[k].op = "add_segment_entry"
           /\ InList(<<calls[k].line, calls[k].column>>, calls[k].recoreded_segments)
           /\ calls[k].segment_before # <<>>
           /\ <<calls[k].line, calls[k].column>> \notin PairsOf(calls[k].segment_before)
           /\ SegmentAfter(k) = calls[k].segment_before

\* C18: add_function_entry, add_segment_entry and extract only append: the
\* tables before the call are prefixes of the tables after it. Only
\* remove_redundant_entries takes rows away, from the segment table alone, and
\* the rows it leaves are rows that were there.
C18_AppendOnlyExceptDedup ==
    \A k \in DOMAIN calls :
        IF IsDedup(k)
        THEN /\ FunctionAfter(k) = calls[k].function_before
             /\ \A i \in DOMAIN SegmentAfter(k) :
                    \E j \in DOMAIN calls[k].segment_before :
                        SegmentAfter(k)[i] = calls[k].segment_before[j]
        ELSE /\ IsPrefix(calls[k].segment_before, SegmentAfter(k))
             /\ IsPrefix(calls[k].function_before, FunctionAfter(k))

\* C18 witness: an extract call appended segment and function rows to tables
\* that held rows of an earlier extract call.
C18_Witness ==
    \E k \in DOMAIN calls :
        /\ calls[k].op = "extract"
        /\ calls[k].segment_before # <<>>
        /\ calls[k].function_before # <<>>
        /\ Len(SegmentAfter(k)) > Len(calls[k].segment_before)
        /\ Len(FunctionAfter(k)) > Len(calls[k].function_before)
        /\ \E f \in DOMAIN FunctionsAdded(k), g \in DOMAIN calls[k].function_before :
               FunctionsAdded(k)[f].function = calls[k].function_before[g].function

\* C18, second case reached: remove_redundant_entries took a segment row away
\* from a dataset whose function table holds a row.
C18_DedupRemovedRow ==
    \E k \in DOMAIN calls :
        /\ IsDedup(k)
        /\ Len(SegmentAfter(k)) < Len(calls[k].segment_before)
        /\ calls[k].function_before # <<>>

\* ------------------------------------------------ claims on extract_corpus
NamesOf(directory) == {f.name : f \in directory}
\* The members extract_corpus reads: regular files with a handle.
ReadMembers == {i \in DOMAIN corpus.archive :
                   corpus.archive[i].isfile /\ corpus.archive[i].has_handle}
\* The hashes of the members that are read and not blacklisted.
WantedHashes ==
    {string_hash(corpus.archive[i].contents) : i \in ReadMembers} \ corpus.sha_blacklist

\* C16: after extract_corpus the directory holds its earlier files unchanged
\* and, for each hash of a read, non-blacklisted member that named no file
\* before, exactly one file, named by the hash and holding the contents of such
\* a member; members that are no regular files, that give no handle or whose
\* hash is blacklisted add no file, whatever comes before or after them.
C16_OneFilePerWantedHash ==
    corpus.extracted =>
        LET before == corpus.before
            after == corpus.output_directory
        IN  /\ NamesOf(after) = NamesOf(before) \cup WantedHashes
            /\ Cardinality(after) = Cardinality(NamesOf(after))
            /\ before \subseteq after
            /\ \A f \in after \ before :
                   \E i \in ReadMembers :
                       /\ corpus.archive[i].contents = f.contents
                       /\ string_hash(f.contents) = f.name

\* C16 witness: the archive has a member without a handle before a member that
\* was written, and a member whose hash names a file that was there with other
\* contents.
C16_Witness ==
    /\ corpus.extracted
    /\ \E i, j \in DOMAIN corpus.archive :
           /\ i < j
           /\ corpus.archive[i].isfile /\ ~corpus.archive[i].has_handle
           /\ j \in ReadMembers
           /\ \E f \in corpus.output_directory \ corpus.before :
                  f.contents = corpus.archive[j].contents
    /\ \E k \in ReadMembers : \E f \in corpus.before :
           /\ f.name = string_hash(corpus.archive[k].contents)
           /\ f.contents # corpus.archive[k].contents

\* ------------------------------------------------ claims on the round trip
\* The (name, cycle - 1) key of StateFile object o.
PreviousKeyOf(o) == <<objects[o].state_dir, objects[o].name, objects[o].cycle - 1>>
\* The step is the first get_previous of object o, of a cycle after the first,
\* and a set_current for the cycle before has completed.
FirstGetAfterWrite(o) ==
    /\ gets[o] = <<>>
    /\ Len(gets'[o]) = 1
    /\ objects[o].cycle > 1
    /\ ~IsNone(written[PreviousKeyOf(o)])

\* C17 (as claimed): the first get_previous of a fresh StateFile of cycle N + 1
\* returns the state of the last completed set_current for cycle N of its
\* name, and reads that object only.
C17_NextCycleGetsWrittenState ==
    [][\A o \in DOMAIN objects :
          FirstGetAfterWrite(o) =>
              /\ gets'[o][1].outcome = "returned"
              /\ gets'[o][1].value = written[PreviousKeyOf(o)]
              /\ gets'[o][1].read
              /\ gets'[o][1].path = PreviousKeyOf(o)]_vars

\* C17 (amended): the same, where the read of the object ends with a zero
\* status; the one object the call reads is that of cycle N of its name
\* whether the read succeeds or not.
C17_NextCycleGetsWrittenStateIfReadSucceeds ==
    [][\A o \in DOMAIN objects :
          FirstGetAfterWrite(o) =>
              /\ gets'[o][1].read
              /\ gets'[o][1].path = PreviousKeyOf(o)
              /\ gets'[o][1].retcode = 0 =>
                     /\ gets'[o][1].outcome = "returned"
                     /\ gets'[o][1].value = written[PreviousKeyOf(o)]]_vars

\* C17 witness: a StateFile of a later cycle got, from its first get_previous,
\* the non-empty state written for the cycle before, while the object of its
\* own cycle holds another state.
C17_Witness ==
    \E o \in DOMAIN objects :
        /\ objects[o].cycle > 1
        /\ gets[o] # <<>>
        /\ gets[o][1].read
        /\ gets[o][1].retcode = 0
        /\ gets[o][1].path = PreviousKeyOf(o)
        /\ ~IsNone(written[PreviousKeyOf(o)])
        /\ gets[o][1].value = written[PreviousKeyOf(o)]
        /\ gets[o][1].value.items # <<>>
        /\ bucket[KeyOf(o)].exists
        /\ bucket[KeyOf(o)].content # bucket[PreviousKeyOf(o)].content

\* ------------------------------------------------ claims on the pairs seen
\* How often a nonzero-hit segment of the summary has the triple.
TimesListed(summary, triple) ==
    Cardinality({p \in NonzeroPositions(summary) : TripleAt(summary, p) = triple})
\* How many rows call k appended for the triple.
TimesAppended(k, triple) ==
    Cardinality({i \in DOMAIN SegmentsAdded(k) : Triple(SegmentsAdded(k)[i]) = triple})

\* C19: after an extract call that met no fault, the (line, column) pairs of
\* the segment table are those it had before and those of the nonzero-hit
\* segments of the summary; a nonzero-hit segment is appended exactly when no
\* row of the table at the start of the call has its (line, column), under
\* whatever file name.
C19_PairsAreBeforeAndNonzero ==
    \A k \in DOMAIN calls :
        (calls[k].op = "extract" /\ calls[k].outcome = "returned") =>
            LET before == calls[k].segment_before
                summary == calls[k].summary
            IN  /\ PairsOf(SegmentAfter(k)) = PairsOf(before) \cup NonzeroPairs(summary)
                /\ IsPrefix(before, SegmentAfter(k))
                /\ \A f \in FileNames, l \in Lines, c \in Columns :
                       TimesAppended(k, <<f, l, c>>) =
                           IF <<l, c>> \in PairsOf(before) THEN 0
                           ELSE TimesListed(summary, <<f, l, c>>)

\* C19 witness: a call on a table that has a pair under one file met the pair
\* under another file, which it did not append, and a new pair, which it did.
C19_Witness ==
    \E k \in DOMAIN calls :
        /\ calls[k].op = "extract"
        /\ calls[k].outcome = "returned"
        /\ \E t \in NonzeroTriples(calls[k].summary) :
               /\ <<t[2], t[3]>> \in PairsOf(calls[k].segment_before)
               /\ \A i \in DOMAIN calls[k].segment_before :
                      Triple(calls[k].segment_before[i]) # t
               /\ TimesAppended(k, t) = 0
        /\ \E t \in NonzeroTriples(calls[k].summary) :
               /\ <<t[2], t[3]>> \notin PairsOf(calls[k].segment_before)
               /\ TimesAppended(k, t) = 1

=============================================================================
